---- MODULE Spec2Model ----
(***************************************************************************)
(* Model of tracking_main/resnet_yolo.py: the residual / dilated blocks,   *)
(* the stage and head builders, the network constructor with its           *)
(* initializer, the forward pass (as the shape computation PyTorch does,   *)
(* plus its effect on the parameters) and load_my_state_dict.              *)
(*                                                                         *)
(* Tensors that flow through the network are modelled by their shape       *)
(* <<batch, channels, height, width>>; a layer that rejects its input      *)
(* yields Fail.  The network's state_dict is modelled by two entries, one  *)
(* learnable parameter (conv1.weight) and one normalization buffer         *)
(* (bn1.running_mean); their tensors are sequences of integers.            *)
(***************************************************************************)
EXTENDS Integers, Sequences, FiniteSets, TLC

VARIABLES
    net,      \* the network object, as the constructor call that built it
              \* (its modules are Modules(net)), or NoNet
    det,      \* a DetNetBottleneck constructed on its own, or NoDet
    zoo,      \* what model_zoo.load_url returns: a sequence of (name, value)
    params,   \* net.state_dict(): name -> tensor
    pre,      \* params as they were when the last operation started
    last      \* the last operation: its arguments and its outcome

vars == <<net, det, zoo, params, pre, last>>

\* ------------------------------------------------------------------ bounds
MaxBlocks == 2      \* block count per stage, ResNet(block, layers) called directly
MaxBatch == 2       \* batch size N of a forward input
MaxSrc == 2         \* entries of a synthetic weight source
MaxDim == 2         \* length of a source tensor
MaxVal == 1         \* tensor element values are 0..MaxVal

\* ------------------------------------------------------- program constants
ImgSize == 448

model_urls ==
    [k \in {"resnet18", "resnet34", "resnet50", "resnet101", "resnet152"} |->
        CASE k = "resnet18"  -> "https://download.pytorch.org/models/resnet18-5c106cde.pth"
          [] k = "resnet34"  -> "https://download.pytorch.org/models/resnet34-333f7ec4.pth"
          [] k = "resnet50"  -> "https://download.pytorch.org/models/resnet50-19c8e357.pth"
          [] k = "resnet101" -> "https://download.pytorch.org/models/resnet101-5d3b4d8f.pth"
          [] k = "resnet152" -> "https://download.pytorch.org/models/resnet152-b121ed2d.pth"]

\* ------------------------------------------------------------------ layers
Fail == <<>>

Conv2d(i, o, k, s, p, d) ==
    [type |-> "Conv2d", in_channels |-> i, out_channels |-> o,
     kernel_size |-> k, stride |-> s, padding |-> p, dilation |-> d]

BatchNorm2d(c) ==
    [type |-> "BatchNorm2d", in_channels |-> c, out_channels |-> c,
     kernel_size |-> 1, stride |-> 1, padding |-> 0, dilation |-> 1]

MaxPool2d(k, s, p) ==
    [type |-> "MaxPool2d", in_channels |-> 0, out_channels |-> 0,
     kernel_size |-> k, stride |-> s, padding |-> p, dilation |-> 1]

conv3x3(in_planes, out_planes, stride) ==
    Conv2d(in_planes, out_planes, 3, stride, 1, 1)

\* Output extent of a convolution / pooling window along one axis.
OutSize(l, h) ==
    ((h + 2 * l.padding - l.dilation * (l.kernel_size - 1) - 1) \div l.stride) + 1

\* One layer applied to a tensor of shape x.  ReLU and sigmoid keep the shape
\* and hold no parameters, so they do not appear as layers.
Apply(l, x) ==
    IF x = Fail THEN Fail
    ELSE IF l.type = "BatchNorm2d"
         THEN (IF x[2] = l.in_channels THEN x ELSE Fail)
    ELSE IF l.type = "Conv2d" /\ x[2] # l.in_channels THEN Fail
    ELSE IF x[3] + 2 * l.padding < l.dilation * (l.kernel_size - 1) + 1 THEN Fail
    ELSE <<x[1],
           IF l.type = "Conv2d" THEN l.out_channels ELSE x[2],
           OutSize(l, x[3]), OutSize(l, x[4])>>

RECURSIVE Sequential(_, _)
Sequential(ls, x) ==
    IF x = Fail THEN Fail
    ELSE IF ls = <<>> THEN x
    ELSE Sequential(Tail(ls), Apply(Head(ls), x))

\* ------------------------------------------------------------------ blocks
\* A block's adjustment path: absent (None), or an nn.Sequential that may be
\* empty.
None == [present |-> FALSE, layers |-> <<>>]

nnSequential(ls) == [present |-> TRUE, layers |-> ls]

expansion(block) == IF block = "Bottleneck" THEN 4 ELSE 1

BasicBlock(inplanes, planes, stride, downsample) ==
    [block |-> "BasicBlock", inplanes |-> inplanes, planes |-> planes,
     stride |-> stride, block_type |-> "",
     main |-> <<conv3x3(inplanes, planes, stride), BatchNorm2d(planes),
                conv3x3(planes, planes, 1), BatchNorm2d(planes)>>,
     downsample |-> downsample]

\* Fault: Bottleneck whose last convolution widens by 2 instead of 4.
BottleneckNarrow(inplanes, planes, stride, downsample) ==
    [block |-> "Bottleneck", inplanes |-> inplanes, planes |-> planes,
     stride |-> stride, block_type |-> "",
     main |-> <<Conv2d(inplanes, planes, 1, 1, 0, 1), BatchNorm2d(planes),
                Conv2d(planes, planes, 3, stride, 1, 1), BatchNorm2d(planes),
                Conv2d(planes, planes * 2, 1, 1, 0, 1), BatchNorm2d(planes * 2)>>,
     downsample |-> downsample]

Bottleneck(inplanes, planes, stride, downsample) ==
    [block |-> "Bottleneck", inplanes |-> inplanes, planes |-> planes,
     stride |-> stride, block_type |-> "",
     main |-> <<Conv2d(inplanes, planes, 1, 1, 0, 1), BatchNorm2d(planes),
                Conv2d(planes, planes, 3, stride, 1, 1), BatchNorm2d(planes),
                Conv2d(planes, planes * 4, 1, 1, 0, 1), BatchNorm2d(planes * 4)>>,
     downsample |-> downsample]

\* Fault: DetNetBottleneck that ignores block_type.
DetNetBottleneckTypeBlind(in_planes, planes, stride, block_type) ==
    [block |-> "DetNetBottleneck", inplanes |-> in_planes, planes |-> planes,
     stride |-> stride, block_type |-> block_type,
     main |-> <<Conv2d(in_planes, planes, 1, 1, 0, 1), BatchNorm2d(planes),
                Conv2d(planes, planes, 3, stride, 2, 2), BatchNorm2d(planes),
                Conv2d(planes, 1 * planes, 1, 1, 0, 1), BatchNorm2d(1 * planes)>>,
     downsample |->
        IF stride # 1 \/ in_planes # 1 * planes
        THEN nnSequential(<<Conv2d(in_planes, 1 * planes, 1, stride, 0, 1),
                            BatchNorm2d(1 * planes)>>)
        ELSE nnSequential(<<>>)]

DetNetBottleneck(in_planes, planes, stride, block_type) ==
    [block |-> "DetNetBottleneck", inplanes |-> in_planes, planes |-> planes,
     stride |-> stride, block_type |-> block_type,
     main |-> <<Conv2d(in_planes, planes, 1, 1, 0, 1), BatchNorm2d(planes),
                Conv2d(planes, planes, 3, stride, 2, 2), BatchNorm2d(planes),
                Conv2d(planes, 1 * planes, 1, 1, 0, 1), BatchNorm2d(1 * planes)>>,
     downsample |->
        IF stride # 1 \/ in_planes # 1 * planes \/ block_type = "B"
        THEN nnSequential(<<Conv2d(in_planes, 1 * planes, 1, stride, 0, 1),
                            BatchNorm2d(1 * planes)>>)
        ELSE nnSequential(<<>>)]

\* block(inplanes, planes, stride, downsample) for the block class passed in.
NewBlock(block, inplanes, planes, stride, downsample) ==
    IF block = "BasicBlock"
    THEN BasicBlock(inplanes, planes, stride, downsample)
    ELSE Bottleneck(inplanes, planes, stride, downsample)

\* out += residual: the residual must broadcast to the shape of out.
AddInPlace(out, residual) ==
    IF out = Fail \/ residual = Fail THEN Fail
    ELSE IF \A i \in 1..4 : residual[i] = out[i] \/ residual[i] = 1 THEN out
    ELSE Fail

\* forward of BasicBlock, Bottleneck and DetNetBottleneck.
BlockForward(b, x) ==
    LET out == Sequential(b.main, x)
        residual == IF b.downsample.present
                    THEN Sequential(b.downsample.layers, x)
                    ELSE x
    IN  AddInPlace(out, residual)

RECURSIVE StageForward(_, _)
StageForward(bs, x) ==
    IF x = Fail THEN Fail
    ELSE IF bs = <<>> THEN x
    ELSE StageForward(Tail(bs), BlockForward(Head(bs), x))

\* ---------------------------------------------------------------- builders
\* _make_layer with self.inplanes passed in; the result carries the stage and
\* the value self.inplanes has afterwards.
\* Fault: every block of the stage gets the stride and an adjustment path.
make_layer_AllDownsample(block, inplanes, planes, blocks, stride) ==
    LET downsample ==
            IF stride # 1 \/ inplanes # planes * expansion(block)
            THEN nnSequential(<<Conv2d(inplanes, planes * expansion(block), 1, stride, 0, 1),
                                BatchNorm2d(planes * expansion(block))>>)
            ELSE None
        after == planes * expansion(block)
    IN  [layers |-> <<NewBlock(block, inplanes, planes, stride, downsample)>> \o
                    [i \in 1..(IF blocks > 1 THEN blocks - 1 ELSE 0) |->
                        NewBlock(block, after, planes, stride,
                                 nnSequential(<<Conv2d(after, after, 1, stride, 0, 1),
                                                BatchNorm2d(after)>>))],
         inplanes |-> after]

make_layer(block, inplanes, planes, blocks, stride) ==
    LET downsample ==
            IF stride # 1 \/ inplanes # planes * expansion(block)
            THEN nnSequential(<<Conv2d(inplanes, planes * expansion(block), 1, stride, 0, 1),
                                BatchNorm2d(planes * expansion(block))>>)
            ELSE None
        after == planes * expansion(block)
    IN  [layers |-> <<NewBlock(block, inplanes, planes, stride, downsample)>> \o
                    [i \in 1..(IF blocks > 1 THEN blocks - 1 ELSE 0) |->
                        NewBlock(block, after, planes, 1, None)],
         inplanes |-> after]

make_detnet_layer(in_channels) ==
    <<DetNetBottleneck(in_channels, 256, 1, "B"),
      DetNetBottleneck(256, 256, 1, "A"),
      DetNetBottleneck(256, 256, 1, "A")>>

\* ResNet.__init__: the modules it creates.
ResNet(block, layers) ==
    LET l1 == make_layer(block, 64, 64, layers[1], 1)
        l2 == make_layer(block, l1.inplanes, 128, layers[2], 2)
        l3 == make_layer(block, l2.inplanes, 256, layers[3], 2)
        l4 == make_layer(block, l3.inplanes, 512, layers[4], 2)
    IN  [conv1 |-> Conv2d(3, 64, 7, 2, 3, 1),
         bn1 |-> BatchNorm2d(64),
         maxpool |-> MaxPool2d(3, 2, 1),
         layer1 |-> l1.layers, layer2 |-> l2.layers,
         layer3 |-> l3.layers, layer4 |-> l4.layers,
         layer5 |-> make_detnet_layer(layers[5]),
         conv_end |-> Conv2d(256, 10, 3, 1, 1, 1),
         bn_end |-> BatchNorm2d(10)]

\* The block class and layers list of each named constructor.
DepthBlock(k) ==
    IF k \in {"resnet18", "resnet34"} THEN "BasicBlock" ELSE "Bottleneck"

DepthLayers(k) ==
    CASE k = "resnet18"  -> <<2, 2, 2, 2, 512>>
      [] k = "resnet34"  -> <<3, 4, 6, 3, 512>>
      [] k = "resnet50"  -> <<3, 4, 6, 3, 2048>>
      [] k = "resnet101" -> <<3, 4, 23, 3, 2048>>
      [] k = "resnet152" -> <<3, 8, 36, 3, 2048>>

\* A network object: the entry point that built it (name) and the arguments
\* ResNet.__init__ got.
Network(name, block, layers) == [name |-> name, block |-> block, layers |-> layers]

Named(k) == Network(k, DepthBlock(k), DepthLayers(k))

Modules(n) == ResNet(n.block, n.layers)

\* ----------------------------------------------------------------- forward
Stem(m, x) == Apply(m.maxpool, Apply(m.bn1, Apply(m.conv1, x)))

\* ResNet.forward, as the shape of what it returns (Fail: it raised).
forward(m, x) ==
    LET s0 == Stem(m, x)
        s1 == StageForward(m.layer1, s0)
        s2 == StageForward(m.layer2, s1)
        s3 == StageForward(m.layer3, s2)
        s4 == StageForward(m.layer4, s3)
        s5 == StageForward(m.layer5, s4)
        y  == Apply(m.bn_end, Apply(m.conv_end, s5))
    IN  IF y = Fail THEN Fail ELSE <<y[1], y[3], y[4], y[2]>>

\* ------------------------------------------------- parameters and sources
Const(n, v) == [i \in 1..n |-> v]

\* The entries of net.state_dict() that the model keeps, with their lengths.
ParamNames == {"conv1.weight", "bn1.running_mean"}

ParamLen(name) == IF name = "conv1.weight" THEN 2 ELSE 1

\* Names a weight source may use: the network's, and one the network lacks.
SourceNames == ParamNames \cup {"fc.weight"}

Tensors == {Const(n, v) : n \in 1..MaxDim, v \in 0..MaxVal}

Entries == [name : SourceNames, value : Tensors]

\* Synthetic weight sources: name -> value mappings in iteration order.
Sources ==
    {s \in UNION {[1..k -> Entries] : k \in 0..MaxSrc} :
        \A i, j \in DOMAIN s : i # j => s[i].name # s[j].name}

\* What a URL of model_urls serves: a torchvision checkpoint, whose entries have
\* the shapes of this network's layers, plus the classifier's fc.weight.
Checkpoint ==
    <<[name |-> "conv1.weight", value |-> Const(ParamLen("conv1.weight"), MaxVal)],
      [name |-> "bn1.running_mean", value |-> Const(ParamLen("bn1.running_mean"), MaxVal)],
      [name |-> "fc.weight", value |-> Const(MaxDim, MaxVal)]>>

\* The state_dict right after ResNet.__init__: conv weights drawn at random (w),
\* the running mean of a new BatchNorm2d at zero.
InitialParams(w) ==
    [n \in ParamNames |->
        IF n = "conv1.weight" THEN Const(ParamLen(n), w) ELSE Const(ParamLen(n), 0)]

\* ------------------------------------------------------ load_my_state_dict
\* Tensor.copy_ broadcasts its source to the destination's shape.
CanCopy(dst, src) == Len(src) = Len(dst) \/ Len(src) = 1

\* Fault: add_ in place of copy_.
copy_accumulate(dst, src) ==
    [i \in 1..Len(dst) |-> dst[i] + (IF Len(src) = 1 THEN src[1] ELSE src[i])]

copy_(dst, src) ==
    [i \in 1..Len(dst) |-> IF Len(src) = 1 THEN src[1] ELSE src[i]]

\* Fault: the loop with break in place of continue.
RECURSIVE LoadFromStopAtUnknown(_, _, _)
LoadFromStopAtUnknown(model_dict, src, i) ==
    IF i > Len(src) THEN [params |-> model_dict, err |-> "none"]
    ELSE IF src[i].name \notin DOMAIN model_dict
         THEN [params |-> model_dict, err |-> "none"]
    ELSE IF ~CanCopy(model_dict[src[i].name], src[i].value)
         THEN [params |-> model_dict, err |-> "RuntimeError"]
    ELSE LoadFromStopAtUnknown(
            [model_dict EXCEPT ![src[i].name] = copy_(@, src[i].value)], src, i + 1)

\* The loop over param.items(), from entry i on.
RECURSIVE LoadFrom(_, _, _)
LoadFrom(model_dict, src, i) ==
    IF i > Len(src) THEN [params |-> model_dict, err |-> "none"]
    ELSE IF src[i].name \notin DOMAIN model_dict
         THEN LoadFrom(model_dict, src, i + 1)
    ELSE IF ~CanCopy(model_dict[src[i].name], src[i].value)
         THEN [params |-> model_dict, err |-> "RuntimeError"]
    ELSE LoadFrom([model_dict EXCEPT ![src[i].name] = copy_(@, src[i].value)],
                  src, i + 1)

\* load_my_state_dict(net, parameter_url) on the state_dict model_dict, with
\* src what load_url returns for the URL.
load_my_state_dict(model_dict, parameter_url, src) ==
    IF parameter_url \notin DOMAIN model_urls
    THEN [params |-> model_dict, err |-> "KeyError"]
    ELSE LoadFrom(model_dict, src, 1)

\* ------------------------------------------------ forward and the buffers
\* Fault: the update also overwrites the convolution's weight.
bn_train_clobber(p, v) ==
    [p EXCEPT !["bn1.running_mean"] = Const(Len(@), v),
              !["conv1.weight"] = Const(Len(@), v)]

\* A constructed module is in training mode and nothing here leaves it: a
\* BatchNorm2d that runs folds the batch mean (v, it depends on the input
\* data) into its running mean.
bn_train_update(p, v) ==
    [p EXCEPT !["bn1.running_mean"] = Const(Len(@), v)]

\* ------------------------------------------------------------------- state
NoNet == Network("none", "", <<>>)

NoDet == [block |-> "none"]

NoParams == <<>>

Call(op, key, x, out, err) ==
    [op |-> op, key |-> key, x |-> x, out |-> out, err |-> err]

BlockClasses == {"BasicBlock", "Bottleneck"}

\* Values tried for layers[4], the head's in_channels, in the order tried.
HeadInputs == <<512, 2048, 256>>

\* Values tried for layers[0..3]: the same block count in every stage (a
\* stage's blocks depend on its own count and on the widths, not on the other
\* stages' counts).
CountInputs == {[i \in 1..4 |-> k] : k \in 1..MaxBlocks}

\* Keys tried for parameter_url: two of model_urls and one that is not.
KeyInputs == {"resnet18", "resnet152", "resnet20"}

Init ==
    /\ net = NoNet
    /\ det = NoDet
    /\ zoo = Checkpoint
    /\ params = NoParams
    /\ pre = NoParams
    /\ last = Call("none", "", Fail, Fail, "none")

\* The named constructors: ResNet(...), then load_my_state_dict if pretrained.
\* An exception from the import leaves the caller without a network.  The
\* move to the GPU (use_gpu) does not change anything modelled here.
Factory(k) ==
    /\ net.name = "none" /\ det.block = "none"
    /\ \E pretrained \in BOOLEAN, w \in 0..MaxVal :
        LET r == IF pretrained
                 THEN load_my_state_dict(InitialParams(w), k, zoo)
                 ELSE [params |-> InitialParams(w), err |-> "none"]
        IN  /\ net' = IF r.err = "none" THEN Named(k) ELSE NoNet
            /\ params' = IF r.err = "none" THEN r.params ELSE NoParams
            /\ pre' = params'
            /\ last' = Call("construct", IF pretrained THEN k ELSE "", Fail, Fail, r.err)
    /\ UNCHANGED <<det, zoo>>

resnet18 == Factory("resnet18")

resnet34 == Factory("resnet34")

resnet50 == Factory("resnet50")

resnet101 == Factory("resnet101")

resnet152 == Factory("resnet152")

\* ResNet(block, layers) called directly.
NewResNet ==
    /\ net.name = "none" /\ det.block = "none"
    /\ \E block \in BlockClasses, counts \in CountInputs,
          h \in DOMAIN HeadInputs, w \in 0..MaxVal :
        /\ net' = Network("ResNet", block, counts \o <<HeadInputs[h]>>)
        /\ params' = InitialParams(w)
        /\ pre' = params'
        /\ last' = Call("construct", "", Fail, Fail, "none")
    /\ UNCHANGED <<det, zoo>>

\* DetNetBottleneck(in_planes, planes, stride, block_type) called directly.
NewDetNetBottleneck ==
    /\ net.name = "none" /\ det.block = "none"
    /\ \E in_planes \in {256, 512}, planes \in {256, 512}, stride \in {1, 2},
          block_type \in {"A", "B"} :
        det' = DetNetBottleneck(in_planes, planes, stride, block_type)
    /\ last' = Call("block", "", Fail, Fail, "none")
    /\ UNCHANGED <<net, zoo, params, pre>>

\* net(x) for x of shape (n, c, 448, 448).  bn1 runs iff conv1 accepted x.
Forward ==
    /\ net.name # "none"
    /\ \E n \in 1..MaxBatch, c \in {3, 4} :
        LET x == <<n, c, ImgSize, ImgSize>>
            m == Modules(net)
            out == forward(m, x)
        IN  /\ \E v \in 0..MaxVal :
                params' = IF Apply(m.bn1, Apply(m.conv1, x)) # Fail
                          THEN bn_train_update(params, v)
                          ELSE params
            /\ pre' = params
            /\ last' = Call("forward", "", x, out,
                            IF out = Fail THEN "RuntimeError" ELSE "none")
    /\ UNCHANGED <<net, det, zoo>>

\* load_my_state_dict(net, parameter_url) called on the network.
LoadMyStateDict ==
    /\ net.name # "none"
    /\ \E parameter_url \in KeyInputs :
        LET r == load_my_state_dict(params, parameter_url, zoo)
        IN  /\ params' = r.params
            /\ pre' = params
            /\ last' = Call("load", parameter_url, Fail, Fail, r.err)
    /\ UNCHANGED <<net, det, zoo>>

Next ==
    \/ resnet18
    \/ resnet34
    \/ resnet50
    \/ resnet101
    \/ resnet152
    \/ NewResNet
    \/ NewDetNetBottleneck
    \/ Forward
    \/ LoadMyStateDict

Spec == Init /\ [][Next]_vars

\* Weight import on its own: a resnet18 in any parameter state, and a weight
\* source of any names and shapes behind the URL.
InitLoad ==
    /\ net = Named("resnet18")
    /\ det = NoDet
    /\ zoo \in Sources
    /\ params \in {[n \in ParamNames |-> Const(ParamLen(n), f[n])] :
                      f \in [ParamNames -> 0..MaxVal]}
    /\ pre = params
    /\ last = Call("construct", "", Fail, Fail, "none")

NextLoad == LoadMyStateDict

SpecLoad == InitLoad /\ [][NextLoad]_vars

\* ---------------------------------------------------------------- helpers
Stage(m, i) ==
    CASE i = 1 -> m.layer1 [] i = 2 -> m.layer2 [] i = 3 -> m.layer3
      [] i = 4 -> m.layer4 [] i = 5 -> m.layer5

AllBlocks(m) == m.layer1 \o m.layer2 \o m.layer3 \o m.layer4 \o m.layer5

InChannels(b) == b.main[1].in_channels

OutChannels(b) == b.main[Len(b.main)].out_channels

\* The block's adjustment path holds layers (and so parameters).
HasAdjust(b) == b.downsample.layers # <<>>

\* The convolution of the main path that carries the block's stride.
StrideOf(ls) ==
    IF \E i \in DOMAIN ls : ls[i].stride # 1
    THEN ls[CHOOSE i \in DOMAIN ls : ls[i].stride # 1].stride
    ELSE 1

\* Channels and stride of the tensor the residual connection adds to out.
ResidualChannels(b) ==
    IF HasAdjust(b)
    THEN b.downsample.layers[Len(b.downsample.layers)].out_channels
    ELSE InChannels(b)

ResidualStride(b) == StrideOf(b.downsample.layers)

StageWidth(i) == CASE i = 1 -> 64 [] i = 2 -> 128 [] i = 3 -> 256 [] i = 4 -> 512

StageStride(i) == IF i = 1 THEN 1 ELSE 2

\* Channels entering stage i: the stem's for stage 1, else the last block's of
\* the stage before.
Incoming(m, i) ==
    IF i = 1 THEN m.conv1.out_channels
    ELSE OutChannels(Stage(m, i - 1)[Len(Stage(m, i - 1))])

IsNamed(n) == n.name \in DOMAIN model_urls

Built == net.name # "none"

\* The last import reached the loop over the source's entries.
Imported == last.op = "load" /\ last.key \in DOMAIN model_urls

\* Entries of the source whose name the network has.
Matching == {i \in DOMAIN zoo : zoo[i].name \in ParamNames}

\* ------------------------------------------------------------------ claims

\* C1: for each of the five depth configurations, the forward pass on an input
\* of shape (N, 4, 448, 448) completes without error and returns a tensor of
\* shape (N, H', W', 10), H' and W' the same for all five configurations.
C1_ForwardOn4Channels ==
    (last.op = "forward" /\ IsNamed(net) /\ last.x[2] = 4)
        => /\ last.err = "none"
           /\ Len(last.out) = 4
           /\ last.out[1] = last.x[1]
           /\ last.out[4] = 10
           /\ \A k \in DOMAIN model_urls : forward(Modules(Named(k)), last.x) = last.out

\* C2: when a source entry's name exists in the network but its value has a
\* different shape, the import raises and every parameter holds the value it
\* had before the call.
C2_MismatchRaisesAndKeeps ==
    (Imported /\ \E i \in Matching : Len(zoo[i].value) # Len(pre[zoo[i].name]))
        => (last.err # "none" /\ params = pre)

\* C3: a network whose channel expectations are inconsistent between
\* consecutive stages (a head in_channels that differs from what stage 4
\* outputs) is never returned by the constructor: construction fails.
C3_InconsistentFailsFast ==
    Built => /\ Incoming(Modules(net), 5) = InChannels(Modules(net).layer5[1])
             /\ net.layers[5] = 512 * expansion(net.block)

\* C4: after an import from a source whose matching entries have the
\* network's shapes, every parameter named in the source equals the source's
\* value and every other parameter keeps its value; entries with names the
\* network lacks raise no error and add or change nothing.
C4_Selective ==
    (Imported /\ \A i \in Matching : Len(zoo[i].value) = Len(pre[zoo[i].name]))
        => /\ last.err = "none"
           /\ DOMAIN params = DOMAIN pre
           /\ \A n \in ParamNames :
                IF \E i \in DOMAIN zoo : zoo[i].name = n
                THEN \A i \in DOMAIN zoo : zoo[i].name = n => params[n] = zoo[i].value
                ELSE params[n] = pre[n]

C4_Witness ==
    /\ Imported /\ last.err = "none" /\ params # pre
    /\ \E i, j \in DOMAIN zoo : /\ zoo[i].name = "fc.weight"
                                /\ zoo[j].name = "conv1.weight"
                                /\ i < j
                                /\ Len(zoo[j].value) = Len(pre["conv1.weight"])
                                /\ params["conv1.weight"] = zoo[j].value
    /\ params["bn1.running_mean"] = pre["bn1.running_mean"]

C6_StageLayout ==
    Built =>
        \A i \in 1..4 :
            LET m == Modules(net)
                st == Stage(m, i)
            IN  /\ st[1].stride = StageStride(i)
                /\ StrideOf(st[1].main) = StageStride(i)
                /\ st[1].downsample.present
                      <=> (StageStride(i) # 1
                            \/ Incoming(m, i) # StageWidth(i) * expansion(net.block))
                /\ \A j \in 2..Len(st) :
                      /\ st[j].stride = 1
                      /\ StrideOf(st[j].main) = 1
                      /\ ~st[j].downsample.present
                      /\ InChannels(st[j]) = OutChannels(st[j - 1])
                /\ \A j \in 1..Len(st) :
                      (StrideOf(st[j].main) = 1 /\ InChannels(st[j]) = OutChannels(st[j]))
                          => ~st[j].downsample.present

C6_Witness ==
    /\ Built
    /\ ~Modules(net).layer1[1].downsample.present
    /\ Len(Modules(net).layer2) >= 2
    /\ Modules(net).layer2[1].downsample.present
    /\ ~Modules(net).layer2[2].downsample.present

\* C7: a DetNetBottleneck has a convolution(1x1) + normalization adjustment
\* path iff block_type is 'B', or stride # 1, or in_planes # planes * expansion,
\* and an empty one otherwise; the head is three such blocks,
\* (in_channels -> 256, 'B'), (256 -> 256, 'A'), (256 -> 256, 'A'), of which
\* exactly the first has an adjustment path with layers.
C7_DetNetAdjust ==
    /\ det.block # "none" =>
          /\ HasAdjust(det)
                <=> (det.block_type = "B" \/ StrideOf(det.main) # 1
                      \/ InChannels(det) # OutChannels(det))
          /\ HasAdjust(det) =>
                /\ Len(det.downsample.layers) = 2
                /\ det.downsample.layers[1] =
                      Conv2d(InChannels(det), OutChannels(det), 1, StrideOf(det.main), 0, 1)
                /\ det.downsample.layers[2] = BatchNorm2d(OutChannels(det))
          /\ det.downsample.present
    /\ Built =>
          LET head == Modules(net).layer5
          IN  /\ Len(head) = 3
              /\ \A j \in 1..3 :
                    /\ head[j].block = "DetNetBottleneck"
                    /\ InChannels(head[j]) = (IF j = 1 THEN net.layers[5] ELSE 256)
                    /\ OutChannels(head[j]) = 256
                    /\ head[j].block_type = (IF j = 1 THEN "B" ELSE "A")
                    /\ HasAdjust(head[j]) <=> j = 1

C7_Witness ==
    /\ det.block # "none"
    /\ det.block_type = "B" /\ det.stride = 1 /\ InChannels(det) = OutChannels(det)
    /\ HasAdjust(det)

\* C8: for each of the five depth configurations the channel counts chain
\* through the composition: stem -> stage 1, stage i -> stage i+1, stage 4
\* (512 * expansion) -> head (the 5th specification element), head (256) ->
\* final projection; and in every block the two tensors added at the residual
\* connection have the same channels and the same spatial reduction.
C8_ChannelChain ==
    (Built /\ IsNamed(net)) =>
        LET m == Modules(net)
            blocks == AllBlocks(m)
        IN  /\ m.bn1.in_channels = m.conv1.out_channels
            /\ \A i \in 1..5 : InChannels(Stage(m, i)[1]) = Incoming(m, i)
            /\ Incoming(m, 5) = 512 * expansion(net.block)
            /\ Incoming(m, 5) = net.layers[5]
            /\ Incoming(m, 5) = (IF net.block = "BasicBlock" THEN 512 ELSE 2048)
            /\ OutChannels(m.layer5[3]) = 256
            /\ m.conv_end.in_channels = OutChannels(m.layer5[3])
            /\ \A j \in DOMAIN blocks :
                  /\ ResidualChannels(blocks[j]) = OutChannels(blocks[j])
                  /\ ResidualStride(blocks[j]) = StrideOf(blocks[j].main)
            /\ forward(m, <<1, m.conv1.in_channels, ImgSize, ImgSize>>) # Fail

C8_Witness ==
    /\ net.name = "resnet50"
    /\ last.op = "forward" /\ last.err = "none"
    /\ last.out = <<last.x[1], 14, 14, 10>>

\* C9: calling load_my_state_dict a second time with the same source leaves
\* every parameter as the first call left it.
C9_Idempotent ==
    (Imported /\ last.err = "none")
        => load_my_state_dict(params, last.key, zoo) = [params |-> params, err |-> "none"]

C9_Witness ==
    /\ Imported /\ last.err = "none" /\ params # pre
    /\ \E i \in Matching : Len(zoo[i].value) < Len(pre[zoo[i].name])

\* C10: a configuration outside the five defined ones is never turned into a
\* network: the request fails.
C10_OnlyDefinedConfigurations ==
    Built => \E k \in DOMAIN model_urls :
                net.block = DepthBlock(k) /\ net.layers = DepthLayers(k)

====
